---- MODULE Spec2Model ----
(***************************************************************************)
(* Model of deployment/library/docker_container_command.py: the runner     *)
(* run_command_in_container (argument assembly, command tokenization, one  *)
(* subprocess.run under a 300 s timeout, three return paths) and main      *)
(* (parameter declaration, call of the runner, exit_json / fail_json).     *)
(*                                                                         *)
(* A Python str is a sequence of one-character strings; an optional value  *)
(* is a sequence of length 0 (None) or 1; a byte stream of the child is a  *)
(* sequence of bytes, of which BadByte is one that does not decode.        *)
(***************************************************************************)
EXTENDS Integers, Sequences, FiniteSets, TLC

VARIABLES pc, entry, raw, request, cmd, child, outcome, launches, spawned, report

vars == <<pc, entry, raw, request, cmd, child, outcome, launches, spawned, report>>

(***************************************************************************)
(* Bounds of the model.                                                    *)
(***************************************************************************)
NumCalls == 2
MaxCmdLen == 3
MaxListLen == 2
MaxOut == 2
MaxRc == 2
MaxLaunches == 2

Calls == 1..NumCalls

(***************************************************************************)
(* Values.                                                                 *)
(***************************************************************************)
None == <<>>
Some(v) == <<v>>

BadByte == "0xFF"
Bytes == {"a", "\r", "\n", BadByte}
Whitespace == {" ", "\t", "\n", "\r", "\f"}

StrCmd(s) == [kind |-> "str", str |-> s, list |-> <<>>]
ListCmd(l) == [kind |-> "list", str |-> <<>>, list |-> l]
NoneCmd == [kind |-> "none", str |-> <<>>, list |-> <<>>]

SeqsUpTo(S, n) == UNION {[1..k -> S] : k \in 0..n}

DOCKER == <<"d", "o", "c", "k", "e", "r">>
EXEC == <<"e", "x", "e", "c">>
FLAG_U == <<"-", "u">>
FLAG_W == <<"-", "w">>
TIMEOUT_MSG == <<"C", "o", "m", "m", "a", "n", "d", " ", "t", "i", "m", "e", "d", " ", "o", "u", "t", " ", "a", "f", "t", "e", "r", " ", "5", " ", "m", "i", "n", "u", "t", "e", "s">>
FAIL_PREFIX == <<"C", "o", "m", "m", "a", "n", "d", " ", "f", "a", "i", "l", "e", "d", " ", "w", "i", "t", "h", " ", "r", "e", "t", "u", "r", "n", " ", "c", "o", "d", "e", " ">>

\* str(e) of the exceptions subprocess.run raises when the launch fails.
ENOENT == <<"[", "E", "r", "r", "n", "o", " ", "2", "]", " ", "N", "o", " ", "s", "u", "c", "h", " ", "f", "i", "l", "e">>
EACCES == <<"[", "E", "r", "r", "n", "o", " ", "1", "3", "]", " ", "P", "e", "r", "m", "i", "s", "s", "i", "o", "n", " ", "d", "e", "n", "i", "e", "d">>
LaunchErrors == {ENOENT, EACCES}
\* str(e) of the UnicodeDecodeError raised while decoding captured output.
DecodeErrorDesc == <<"c", "o", "d", "e", "c", " ", "c", "a", "n", "'", "t", " ", "d", "e", "c", "o", "d", "e", " ", "b", "y", "t", "e">>

(***************************************************************************)
(* Pure functions of the Python runtime the source relies on.              *)
(***************************************************************************)
\* str.split() without arguments: split on runs of whitespace, no empty tokens.
RECURSIVE SplitFrom(_, _, _)
SplitFrom(s, i, cur) ==
    IF i > Len(s)
    THEN IF cur = <<>> THEN <<>> ELSE <<cur>>
    ELSE IF s[i] \in Whitespace
         THEN (IF cur = <<>> THEN <<>> ELSE <<cur>>) \o SplitFrom(s, i + 1, <<>>)
         ELSE SplitFrom(s, i + 1, Append(cur, s[i]))

\* Faulty variant of Split: str.split(" "), which cuts at every single space.
RECURSIVE SplitEach(_, _, _)
SplitEach(s, i, cur) ==
    IF i > Len(s) THEN <<cur>>
    ELSE IF s[i] = " "
         THEN <<cur>> \o SplitEach(s, i + 1, <<>>)
         ELSE SplitEach(s, i + 1, Append(cur, s[i]))

SplitSingleSpace(s) == SplitEach(s, 1, <<>>)

Split(s) == SplitFrom(s, 1, <<>>)

\* str(list) of a list of str: "['x', 'y']".
RECURSIVE ReprItems(_)
ReprItems(l) ==
    IF l = <<>> THEN <<>>
    ELSE <<"'">> \o Head(l) \o <<"'">>
         \o (IF Len(l) > 1 THEN <<",", " ">> ELSE <<>>)
         \o ReprItems(Tail(l))

ListToStr(l) == <<"[">> \o ReprItems(l) \o <<"]">>

\* str(int): decimal digits, with a sign for a negative number.
DigitChar(d) == <<"0", "1", "2", "3", "4", "5", "6", "7", "8", "9">>[d + 1]

RECURSIVE NatToStr(_)
NatToStr(n) ==
    IF n < 10 THEN <<DigitChar(n)>>
    ELSE NatToStr(n \div 10) \o <<DigitChar(n % 10)>>

IntToStr(n) == IF n < 0 THEN <<"-">> \o NatToStr(-n) ELSE NatToStr(n)

\* text=True: the captured bytes are decoded (strict) and newlines are
\* translated (universal newlines: "\r\n" and "\r" become "\n").
Decodable(b) == \A i \in 1..Len(b) : b[i] # BadByte

RECURSIVE UniversalNewlines(_)
UniversalNewlines(b) ==
    IF b = <<>> THEN <<>>
    ELSE IF Head(b) = "\r"
         THEN IF Len(b) > 1 /\ b[2] = "\n"
              THEN <<"\n">> \o UniversalNewlines(Tail(Tail(b)))
              ELSE <<"\n">> \o UniversalNewlines(Tail(b))
         ELSE <<Head(b)>> \o UniversalNewlines(Tail(b))

DecodeText(b) == UniversalNewlines(b)

(***************************************************************************)
(* run_command_in_container.                                               *)
(***************************************************************************)
\* Truth value of an optional str in `if user:` / `if chdir:`.
Truthy(opt) == opt # None /\ opt[1] # <<>>

UserFlag(user) == IF Truthy(user) THEN <<FLAG_U, user[1]>> ELSE <<>>

ChdirFlag(chdir) == IF Truthy(chdir) THEN <<FLAG_W, chdir[1]>> ELSE <<>>

\* Faulty variant of AssembleFlags: the options are added after the container name.
AssembleFlagsAfterTarget(container_name, chdir, user) ==
    <<DOCKER, EXEC, container_name>> \o UserFlag(user) \o ChdirFlag(chdir)

\* cmd after cmd.append(container_name).
AssembleFlags(container_name, chdir, user) ==
    <<DOCKER, EXEC>> \o UserFlag(user) \o ChdirFlag(chdir) \o <<container_name>>

\* cmd.extend(command) raises TypeError for a value that is not iterable.
Iterable(command) == command.kind # "none"

\* The tokens cmd.extend receives.
TokenizeCommand(command) ==
    IF command.kind = "str" THEN Split(command.str) ELSE command.list

BuildCmd(req) ==
    AssembleFlags(req.container, req.chdir, req.user) \o TokenizeCommand(req.command)

ReturnTuple(rc, out, err) == [rc |-> rc, stdout |-> out, stderr |-> err]

\* return result.returncode, result.stdout, result.stderr
OnCompleted(returncode, out, err) ==
    ReturnTuple(returncode, DecodeText(out), DecodeText(err))

\* Faulty variant of OnTimeoutExpired: the partial output of the exception is reported.
OnTimeoutExpiredPartial(partialOut, partialErr) ==
    ReturnTuple(1, DecodeText(partialOut), TIMEOUT_MSG)

\* except subprocess.TimeoutExpired (the exception carries the partial output).
OnTimeoutExpired(partialOut, partialErr) == ReturnTuple(1, <<>>, TIMEOUT_MSG)

\* except Exception as e
OnException(desc) == ReturnTuple(1, <<>>, desc)

\* The try statement, for a child that was spawned and has result res.
TryResult(res) ==
    IF res.kind = "timeout" THEN OnTimeoutExpired(res.out, res.err)
    ELSE IF Decodable(res.out) /\ Decodable(res.err)
         THEN OnCompleted(res.rc, res.out, res.err)
         ELSE OnException(DecodeErrorDesc)

\* Faulty variant of Finish: a failed attempt is retried instead of returned.
FinishRetry(c, oc) ==
    IF oc.rc # 0
    THEN /\ pc' = [pc EXCEPT ![c] = "NotStarted"]
         /\ UNCHANGED outcome
    ELSE /\ pc' = [pc EXCEPT ![c] = "Completed"]
         /\ outcome' = [outcome EXCEPT ![c] = Some(oc)]

\* Faulty variant of Finish: the result is kept in a variable every call shares.
FinishShared(c, oc) ==
    /\ pc' = [pc EXCEPT ![c] = "Completed"]
    /\ outcome' = [d \in Calls |->
                      IF d = c \/ pc[d] = "Running" THEN Some(oc) ELSE outcome[d]]

\* The return statement of call c.
Finish(c, oc) ==
    /\ pc' = [pc EXCEPT ![c] = "Completed"]
    /\ outcome' = [outcome EXCEPT ![c] = Some(oc)]

\* Lines 75-97 of call c with arguments req; fault is None when the child is
\* spawned and Some(str(e)) when subprocess.run raises before there is one.
Invoke(c, req, fault) ==
    /\ request' = [request EXCEPT ![c] = Some(req)]
    /\ IF ~Iterable(req.command)
       THEN /\ pc' = [pc EXCEPT ![c] = "Raised"]
            /\ cmd' = [cmd EXCEPT ![c] =
                          AssembleFlags(req.container, req.chdir, req.user)]
            /\ UNCHANGED <<child, outcome, launches, spawned>>
       ELSE /\ cmd' = [cmd EXCEPT ![c] = BuildCmd(req)]
            /\ launches' = [launches EXCEPT ![c] = @ + 1]
            /\ IF fault = None
               THEN /\ spawned' = [spawned EXCEPT ![c] = @ + 1]
                    /\ pc' = [pc EXCEPT ![c] = "Running"]
                    /\ UNCHANGED <<child, outcome>>
               ELSE /\ child' = [child EXCEPT ![c] =
                                    Some([kind |-> "launchfail", rc |-> 0,
                                          out |-> <<>>, err |-> <<>>,
                                          desc |-> fault[1]])]
                    /\ Finish(c, OnException(fault[1]))
                    /\ UNCHANGED spawned

(***************************************************************************)
(* main.                                                                   *)
(***************************************************************************)
\* command=dict(required=True, type='str'): AnsibleModule hands main a str;
\* a value that is not a str is converted with str() (the default string
\* conversion action).
CheckTypeStr(value) ==
    IF value.kind = "str" THEN value ELSE StrCmd(ListToStr(value.list))

ExitJson(oc, command) ==
    [failed |-> FALSE, changed |-> TRUE, msg |-> <<>>,
     stdout |-> oc.stdout, stderr |-> oc.stderr, rc |-> oc.rc, cmd |-> command]

FailJson(oc, command) ==
    [failed |-> TRUE, changed |-> FALSE, msg |-> FAIL_PREFIX \o IntToStr(oc.rc),
     stdout |-> oc.stdout, stderr |-> oc.stderr, rc |-> oc.rc, cmd |-> command]

\* Faulty variant of MainReport: only the runner's own code 1 counts as a failure.
MainReportOnlyOne(oc, command) ==
    IF oc.rc # 1 THEN ExitJson(oc, command) ELSE FailJson(oc, command)

MainReport(oc, command) ==
    IF oc.rc = 0 THEN ExitJson(oc, command) ELSE FailJson(oc, command)

(***************************************************************************)
(* Inputs: what callers pass and what the child process does.              *)
(***************************************************************************)
CmdChars == {"a", " "}
ListTokens == {<<"a">>, <<"a", " ", "a">>}
Targets == {<<"w", "e", "b">>}
Users == {None, Some(<<>>), Some(<<"r", "o", "o", "t">>)}
Chdirs == {None, Some(<<>>), Some(<<"/", "s", "r", "v">>)}
ExitCodes == (0..MaxRc) \cup {-9, 127}

StrCommands == {StrCmd(s) : s \in SeqsUpTo(CmdChars, MaxCmdLen)}
ListCommands == {ListCmd(l) : l \in SeqsUpTo(ListTokens, MaxListLen)}

Requests(commands) ==
    [container : Targets, command : commands, chdir : Chdirs, user : Users]

ExitResults(rcs, outs) ==
    [kind : {"exit"}, rc : rcs, out : outs, err : outs, desc : {<<>>}]

TimeoutResults(outs) ==
    [kind : {"timeout"}, rc : {0}, out : outs, err : outs, desc : {<<>>}]

Faults == {None} \cup {Some(e) : e \in LaunchErrors}

(***************************************************************************)
(* State machine.  pc[c] is the position of call c of the runner.          *)
(***************************************************************************)
Init ==
    /\ pc = [c \in Calls |-> "NotStarted"]
    /\ entry = [c \in Calls |-> "none"]
    /\ raw = [c \in Calls |-> None]
    /\ request = [c \in Calls |-> None]
    /\ cmd = [c \in Calls |-> <<>>]
    /\ child = [c \in Calls |-> None]
    /\ outcome = [c \in Calls |-> None]
    /\ launches = [c \in Calls |-> 0]
    /\ spawned = [c \in Calls |-> 0]
    /\ report = [c \in Calls |-> None]

\* main reads module.params and calls the runner.
MainStart(c, params) ==
    /\ pc[c] = "NotStarted"
    /\ launches[c] < MaxLaunches
    /\ \E p \in params, fault \in Faults :
          /\ entry' = [entry EXCEPT ![c] = "main"]
          /\ raw' = [raw EXCEPT ![c] = Some(p.command)]
          /\ Invoke(c, [p EXCEPT !.command = CheckTypeStr(p.command)], fault)
    /\ UNCHANGED report

\* A direct call of run_command_in_container.
RunStart(c, requests) ==
    /\ pc[c] = "NotStarted"
    /\ launches[c] < MaxLaunches
    /\ \E req \in requests, fault \in Faults :
          /\ entry' = [entry EXCEPT ![c] = "run"]
          /\ raw' = [raw EXCEPT ![c] = Some(req.command)]
          /\ Invoke(c, req, fault)
    /\ UNCHANGED report

\* The child exits before the deadline: subprocess.run returns (or raises
\* while decoding what it captured).
ChildExits(c, results) ==
    /\ pc[c] = "Running"
    /\ \E res \in results :
          /\ res.kind = "exit"
          /\ child' = [child EXCEPT ![c] = Some(res)]
          /\ Finish(c, TryResult(res))
    /\ UNCHANGED <<entry, raw, request, cmd, launches, spawned, report>>

\* The 300 s timeout expires: subprocess.run kills the child and raises
\* TimeoutExpired.
DeadlineExpires(c, partials) ==
    /\ pc[c] = "Running"
    /\ \E res \in partials :
          /\ res.kind = "timeout"
          /\ child' = [child EXCEPT ![c] = Some(res)]
          /\ Finish(c, TryResult(res))
    /\ UNCHANGED <<entry, raw, request, cmd, launches, spawned, report>>

\* main reports the runner's tuple with exit_json or fail_json.
MainReports(c) ==
    /\ entry[c] = "main"
    /\ pc[c] = "Completed"
    /\ report[c] = None
    /\ report' = [report EXCEPT ![c] =
                     Some(MainReport(outcome[c][1], request[c][1].command))]
    /\ UNCHANGED <<pc, entry, raw, request, cmd, child, outcome, launches, spawned>>

\* One call, every form of request, few child results.
SmallOuts == {<<>>, <<"a">>}

Next ==
    \/ MainStart(1, Requests(StrCommands \cup ListCommands))
    \/ RunStart(1, Requests(StrCommands \cup ListCommands \cup {NoneCmd}))
    \/ ChildExits(1, ExitResults({0, 1}, SmallOuts))
    \/ DeadlineExpires(1, TimeoutResults(SmallOuts))
    \/ MainReports(1)

Spec == Init /\ [][Next]_vars

\* One call, few requests, every child result.
FewStr == {StrCmd(<<"a">>)}
FewDirect == {StrCmd(<<"a">>), ListCmd(<<<<"a">>>>), NoneCmd}
FewRequests(commands) ==
    [container : Targets, command : commands, chdir : {None}, user : {None}]
Outs == SeqsUpTo(Bytes, MaxOut)

NextOut ==
    \/ MainStart(1, FewRequests(FewStr))
    \/ RunStart(1, FewRequests(FewDirect))
    \/ ChildExits(1, ExitResults(ExitCodes, Outs))
    \/ DeadlineExpires(1, TimeoutResults(Outs))
    \/ MainReports(1)

SpecOut == Init /\ [][NextOut]_vars

\* Several concurrent calls, few requests, few child results.
ConcOuts == {<<"a">>, <<BadByte>>}

NextConc ==
    \E c \in Calls :
        \/ MainStart(c, FewRequests(FewStr))
        \/ RunStart(c, FewRequests(FewDirect))
        \/ ChildExits(c, ExitResults({0, 1}, ConcOuts))
        \/ DeadlineExpires(c, TimeoutResults({<<"a">>}))
        \/ MainReports(c)

SpecConc == Init /\ [][NextConc]_vars

\* subprocess.run returns or raises at the latest when the timeout expires,
\* and main reports as soon as the runner has returned.
FairSpec ==
    /\ Init
    /\ [][NextConc]_vars
    /\ \A c \in Calls :
          /\ WF_vars(DeadlineExpires(c, TimeoutResults({<<"a">>})))
          /\ WF_vars(MainReports(c))

(***************************************************************************)
(* Properties.                                                             *)
(***************************************************************************)
Launched(c) == pc[c] \in {"Running", "Completed"}

Present(opt) == opt # None

NonEmpty(opt) == opt # None /\ opt[1] # <<>>

\* Number of elements of cmd[c] up to and including the container name.
TargetIndex(c) ==
    3 + (IF NonEmpty(request[c][1].user) THEN 2 ELSE 0)
      + (IF NonEmpty(request[c][1].chdir) THEN 2 ELSE 0)

\* What follows the container name in cmd[c].
CommandTokens(c) == SubSeq(cmd[c], TargetIndex(c) + 1, Len(cmd[c]))

RECURSIVE Flatten(_)
Flatten(ts) == IF ts = <<>> THEN <<>> ELSE Head(ts) \o Flatten(Tail(ts))

NotSpace(ch) == ch \notin Whitespace

\* ts is s cut at its runs of whitespace.
IsSplitOf(ts, s) ==
    /\ \A i \in 1..Len(ts) :
          /\ ts[i] # <<>>
          /\ \A j \in 1..Len(ts[i]) : NotSpace(ts[i][j])
    /\ Flatten(ts) = SelectSeq(s, NotSpace)
    /\ Len(ts) = Cardinality({i \in 1..Len(s) :
                                 NotSpace(s[i]) /\ (i = 1 \/ ~NotSpace(s[i - 1]))})

\* C1: every call that has ended has returned one outcome with its three
\* fields set; no call ends by raising, whichever step fails.
C1_NoUnhandledFault ==
    \A c \in Calls :
        pc[c] \notin {"NotStarted", "Running"} =>
            /\ pc[c] = "Completed"
            /\ outcome[c] # None
            /\ outcome[c][1] \in [rc : Int, stdout : Seq(STRING), stderr : Seq(STRING)]

\* C2: a call whose child ran into the timeout returns exactly
\* (1, "", "Command timed out after 5 minutes"), whatever the child wrote.
C2_TimeoutOutcome ==
    \A c \in Calls :
        (child[c] # None /\ child[c][1].kind = "timeout") =>
            /\ pc[c] = "Completed"
            /\ outcome[c] = Some([rc |-> 1, stdout |-> <<>>, stderr |-> TIMEOUT_MSG])

C2_Witness ==
    \E c \in Calls :
        /\ pc[c] = "Completed"
        /\ child[c] # None
        /\ child[c][1].kind = "timeout"
        /\ child[c][1].out # <<>>
        /\ child[c][1].err # <<>>

\* C3: a call whose child exited with code k returns exactly (k, what the
\* child wrote to stdout, what the child wrote to stderr).
C3_ExitVerbatim ==
    \A c \in Calls :
        (child[c] # None /\ child[c][1].kind = "exit") =>
            outcome[c] = Some([rc |-> child[c][1].rc,
                               stdout |-> child[c][1].out,
                               stderr |-> child[c][1].err])

\* C4: main's report is a success record (changed, rc 0) exactly when the
\* runner's code is 0, else a failure record whose message is
\* "Command failed with return code " followed by the code; it carries the
\* runner's stdout, stderr and code and the command main was given, and a
\* timeout or a failed launch is reported as a failure.
C4_MainReport ==
    \A c \in Calls :
        report[c] # None =>
            /\ Len(report[c]) = 1
            /\ pc[c] = "Completed"
            /\ outcome[c] # None
            /\ LET r == report[c][1]
                   oc == outcome[c][1]
               IN  /\ r.failed = (oc.rc # 0)
                   /\ r.changed = (oc.rc = 0)
                   /\ r.rc = oc.rc
                   /\ r.stdout = oc.stdout
                   /\ r.stderr = oc.stderr
                   /\ r.cmd = request[c][1].command
                   /\ r.cmd.kind = "str"
                   /\ raw[c][1].kind = "str" => r.cmd = raw[c][1]
                   /\ r.failed => r.msg = FAIL_PREFIX \o IntToStr(oc.rc)
                   /\ child[c][1].kind \in {"timeout", "launchfail"} => r.failed

C4_Witness ==
    \E c \in Calls :
        /\ report[c] # None
        /\ report[c][1].failed
        /\ report[c][1].rc = 127
        /\ report[c][1].stdout # <<>>
        /\ child[c][1].kind = "exit"

\* C5 as stated: the invocation is ["docker", "exec"], then ["-u", user] iff a
\* user is present, then ["-w", chdir] iff a working directory is present,
\* then the target, then the command tokens.
C5_FlagsIffPresent ==
    \A c \in Calls :
        Launched(c) =>
            LET req == request[c][1]
            IN  cmd[c] = <<DOCKER, EXEC>>
                         \o (IF Present(req.user) THEN <<FLAG_U, req.user[1]>> ELSE <<>>)
                         \o (IF Present(req.chdir) THEN <<FLAG_W, req.chdir[1]>> ELSE <<>>)
                         \o <<req.container>>
                         \o TokenizeCommand(req.command)

\* C5 as amended: the same, with ["-u", user] iff a user is present and not
\* the empty string, and ["-w", chdir] iff a working directory is present and
\* not the empty string.
C5_FlagsIffNonEmpty ==
    \A c \in Calls :
        Launched(c) =>
            LET req == request[c][1]
            IN  cmd[c] = <<DOCKER, EXEC>>
                         \o (IF NonEmpty(req.user) THEN <<FLAG_U, req.user[1]>> ELSE <<>>)
                         \o (IF NonEmpty(req.chdir) THEN <<FLAG_W, req.chdir[1]>> ELSE <<>>)
                         \o <<req.container>>
                         \o TokenizeCommand(req.command)

C5_Witness ==
    \E c \in Calls :
        /\ Launched(c)
        /\ NonEmpty(request[c][1].user)
        /\ NonEmpty(request[c][1].chdir)
        /\ cmd[c][3] = FLAG_U
        /\ cmd[c][5] = FLAG_W
        /\ Len(cmd[c]) > 7

\* C6 as stated: through main, a string command is cut at its runs of
\* whitespace and a list command is appended to the invocation unchanged.
C6_CallerListUnchanged ==
    \A c \in Calls :
        (Launched(c) /\ entry[c] = "main") =>
            /\ raw[c][1].kind = "str" => IsSplitOf(CommandTokens(c), raw[c][1].str)
            /\ raw[c][1].kind = "list" => CommandTokens(c) = raw[c][1].list

\* C6 as amended: the runner cuts a string command at its runs of whitespace
\* and appends a list command unchanged; main hands the runner a string in
\* every case, and a list given to main reaches the invocation as the tokens
\* of its string form, which begin with "[" and are not the list.
C6_RunnerListUnchanged ==
    \A c \in Calls :
        Launched(c) =>
            LET command == request[c][1].command
            IN  /\ command.kind = "str" => IsSplitOf(CommandTokens(c), command.str)
                /\ command.kind = "list" =>
                      /\ entry[c] = "run"
                      /\ CommandTokens(c) = command.list
                /\ entry[c] = "run" => command = raw[c][1]
                /\ entry[c] = "main" =>
                      /\ command.kind = "str"
                      /\ raw[c][1].kind = "str" => command = raw[c][1]
                      /\ raw[c][1].kind = "list" =>
                            /\ CommandTokens(c) # raw[c][1].list
                            /\ CommandTokens(c)[1][1] = "["

C6_Witness ==
    \E c \in Calls :
        /\ Launched(c)
        /\ entry[c] = "main"
        /\ raw[c][1] = ListCmd(<<<<"a">>, <<"a", " ", "a">>>>)
        /\ Len(CommandTokens(c)) = 3

\* C7: an invocation handed to subprocess.run has at least one command token
\* after the container name.
C7_CommandNonEmpty ==
    \A c \in Calls :
        launches[c] > 0 => Len(cmd[c]) > TargetIndex(c)

\* C8 as stated: a call that has returned has spawned exactly one child.
C8_ExactlyOneChild ==
    \A c \in Calls :
        pc[c] = "Completed" => spawned[c] = 1

\* C8 as amended: a call hands at most one invocation to subprocess.run and
\* spawns at most one child: one when the launch succeeds, none when the
\* launch fails or the call ends before the launch.
C8_AtMostOneChild ==
    \A c \in Calls :
        /\ launches[c] <= 1
        /\ spawned[c] <= launches[c]
        /\ pc[c] = "NotStarted" => launches[c] = 0
        /\ pc[c] = "Raised" => launches[c] = 0
        /\ pc[c] = "Running" => spawned[c] = 1
        /\ pc[c] = "Completed" =>
              /\ launches[c] = 1
              /\ spawned[c] = (IF child[c][1].kind = "launchfail" THEN 0 ELSE 1)

C8_Witness ==
    \E c \in Calls :
        /\ pc[c] = "Completed"
        /\ child[c][1].kind = "exit"
        /\ child[c][1].rc # 0
        /\ spawned[c] = 1

\* C9: a call that has started eventually is Completed.
C9_ReachesCompleted ==
    \A c \in Calls : (pc[c] # "NotStarted") ~> (pc[c] = "Completed")

\* C10: a step of one call leaves every other call's state as it was, and
\* two calls with the same request have the same invocation and, with the
\* same child result, the same outcome.
CallState(c) ==
    <<pc[c], entry[c], raw[c], request[c], cmd[c], child[c], outcome[c],
      launches[c], spawned[c], report[c]>>

SameResults ==
    \A c, d \in Calls :
        (Launched(c) /\ Launched(d) /\ request[c] = request[d]) =>
            /\ cmd[c] = cmd[d]
            /\ (pc[c] = "Completed" /\ pc[d] = "Completed" /\ child[c] = child[d])
                  => outcome[c] = outcome[d]

C10_Independent ==
    [][/\ \A c, d \in Calls :
             (c # d /\ CallState(c)' # CallState(c)) => CallState(d)' = CallState(d)
       /\ SameResults']_vars

C10_Witness ==
    \E c, d \in Calls :
        /\ c # d
        /\ pc[c] = "Completed" /\ pc[d] = "Completed"
        /\ request[c] = request[d]
        /\ child[c][1].kind = "timeout"
        /\ child[d][1].kind = "exit"
        /\ outcome[d][1].rc = 0
        /\ outcome[d][1].stdout = <<"a">>

====
